---- MODULE Spec2Model ----
(***************************************************************************)
(* Model of src/Split_Data.py: the grouped data splitting tool.            *)
(*                                                                         *)
(*   safe_name         the file name sanitiser (lines 37-40)               *)
(*   convert_to_geodf  the geometry inference (lines 42-72)                *)
(*   the script body   upload, load, combine, split controls, export and   *)
(*                     download (lines 83-224)                             *)
(*                                                                         *)
(* Text is a sequence of one-character strings. A cell of a data frame is  *)
(* an atom (a TLA+ string): StrOf gives its str() form and Chars the       *)
(* characters of a key.                                                    *)
(***************************************************************************)
EXTENDS Integers, Sequences, FiniteSets, TLC

VARIABLES
    \* safe_name: the text, its name, the name of its name, the calls made
    value, name, again, ncalls,
    \* convert_to_geodf: the frame handed in, the frame returned, the
    \* strategy that produced the geometry
    df, gdf, via,
    \* the script: where the run is, the upload, the files of the archive
    \* still to load, the frames loaded, the merged frame and its
    \* classification, the split controls,
    \* the advisories shown, the groups visited, the archive written, the
    \* error shown and whether the download is offered
    pc, is_zip, extracted_files, all_dfs, combined_df, is_spatial,
    split_col_1, enable_second_split, split_col_2, output_formats,
    advisories, visited, zip_file, error, download

nvars == <<value, name, again, ncalls>>
gvars == <<df, gdf, via>>
loadvars == <<is_zip, extracted_files, all_dfs>>
datavars == <<combined_df, is_spatial>>
ctlvars == <<split_col_1, enable_second_split, split_col_2, output_formats, advisories>>
outvars == <<visited, zip_file>>
pvars == <<pc, loadvars, datavars, ctlvars, outvars, error, download>>

vars == <<nvars, gvars, pvars>>

(***************************************************************************)
(* Bounds                                                                  *)
(***************************************************************************)
\* longest text handed to safe_name
MaxLen == 3
\* most rows of a frame handed to convert_to_geodf
MaxGeoRows == 2
\* most files of an uploaded ZIP
MaxFiles == 2
\* most rows of all the uploaded files together
MaxRows == 2

(***************************************************************************)
(* safe_name (lines 37-40)                                                 *)
(***************************************************************************)
\* the character class of the pattern on line 39
Reserved == {"<", ">", ":", "\"", "/", "\\", "|", "?", "*", "{", "}"}

UNKNOWN == <<"U", "N", "K", "N", "O", "W", "N">>

RECURSIVE SkipReserved(_)
\* the rest of s after its leading run of reserved characters
SkipReserved(s) ==
    IF s # <<>> /\ Head(s) \in Reserved THEN SkipReserved(Tail(s)) ELSE s

RECURSIVE ReSub(_)
\* re.sub(r'[<>:"/\\|?*{}]+', "_", s): every maximal run of reserved
\* characters becomes one underscore
ReSub(s) ==
    IF s = <<>> THEN <<>>
    ELSE IF Head(s) \in Reserved THEN <<"_">> \o ReSub(SkipReserved(s))
    ELSE <<Head(s)>> \o ReSub(Tail(s))

RECURSIVE LStrip(_)
LStrip(s) == IF s # <<>> /\ Head(s) = "_" THEN LStrip(Tail(s)) ELSE s

RECURSIVE RStrip(_)
RStrip(s) ==
    IF s # <<>> /\ s[Len(s)] = "_" THEN RStrip(SubSeq(s, 1, Len(s) - 1)) ELSE s

\* s.strip("_")
Strip(s) == RStrip(LStrip(s))

\* a sanitiser that strips before it substitutes
safe_name_StripFirst(s) ==
    LET nm == ReSub(Strip(s)) IN IF nm # <<>> THEN nm ELSE UNKNOWN

\* safe_name applied to the str() form of its argument
safe_name(s) ==
    LET nm == Strip(ReSub(s)) IN IF nm # <<>> THEN nm ELSE UNKNOWN

(***************************************************************************)
(* Cells, text and geometry                                                *)
(***************************************************************************)
\* a missing cell (NaN / None)
NULL == "<NA>"
\* the outcome of a call that raises
RAISE == "<raise>"

\* geometry objects
Pt11 == "<Point 1 1>"
Pt12 == "<Point 1 2>"
Pt21 == "<Point 2 1>"
Pt22 == "<Point 2 2>"
PtNaN == "<Point nan>"

\* str(x): a geometry prints as its well-known text, a text as itself
StrOf(x) ==
    CASE x = Pt11 -> "POINT (1 1)"
      [] x = Pt12 -> "POINT (1 2)"
      [] x = Pt21 -> "POINT (2 1)"
      [] x = Pt22 -> "POINT (2 2)"
      [] x = PtNaN -> "POINT (nan nan)"
      [] OTHER -> x

\* s.strip(): a text of white space only strips to the empty text
StripWs(s) == IF s \in {"", " ", "  "} THEN "" ELSE s

\* wkt.loads(s): the geometry a well-known text denotes; any other text
\* raises
WktLoads(s) ==
    CASE s = "POINT (1 1)" -> Pt11
      [] s = "POINT (1 2)" -> Pt12
      [] s = "POINT(1 2)" -> Pt12
      [] s = "POINT (2 1)" -> Pt21
      [] s = "POINT (2 2)" -> Pt22
      [] OTHER -> RAISE

\* the float64 a coordinate cell converts to; a text that is no number
\* raises
ToFloat(x) ==
    CASE x = NULL -> "nan"
      [] x = "1" -> "1"
      [] x = "2" -> "2"
      [] OTHER -> RAISE

\* the point at coordinates (x, y)
PointXY(x, y) ==
    CASE x = "1" /\ y = "1" -> Pt11
      [] x = "1" /\ y = "2" -> Pt12
      [] x = "2" /\ y = "1" -> Pt21
      [] x = "2" /\ y = "2" -> Pt22
      [] OTHER -> PtNaN

(***************************************************************************)
(* Column names                                                            *)
(***************************************************************************)
UpperCase == <<"A", "B", "C", "D", "E", "F", "G", "H", "I", "J", "K", "L", "M",
               "N", "O", "P", "Q", "R", "S", "T", "U", "V", "W", "X", "Y", "Z">>
LowerCase == <<"a", "b", "c", "d", "e", "f", "g", "h", "i", "j", "k", "l", "m",
               "n", "o", "p", "q", "r", "s", "t", "u", "v", "w", "x", "y", "z">>

\* col.lower()
Lower(s) ==
    [i \in 1..Len(s) |->
        IF \E k \in 1..26 : UpperCase[k] = s[i]
        THEN LowerCase[CHOOSE k \in 1..26 : UpperCase[k] = s[i]]
        ELSE s[i]]

\* sub in s
Contains(sub, s) ==
    \E i \in 0..(Len(s) - Len(sub)) : SubSeq(s, i + 1, i + Len(sub)) = sub

\* the names line 46 recognises
WktNames ==
    { <<"g","p","s","_","p","o","i","n","t">>,
      <<"g","p","s","_","p","o","l","y","g","o","n">>,
      <<"p","l","o","t","_","g","p","s","_","p","o","i","n","t">>,
      <<"p","l","o","t","_","g","p","s","_","p","o","l","y","g","o","n">>,
      <<"p","l","o","t","_","w","k","t">>,
      <<"w","k","t">>,
      <<"g","e","o","m","e","t","r","y">> }

GEOMETRY == <<"g","e","o","m","e","t","r","y">>

IsWktName(c) == Lower(c) \in WktNames
IsLonName(c) == Contains(<<"l","o","n">>, Lower(c))
IsLatName(c) == Contains(<<"l","a","t">>, Lower(c))

(***************************************************************************)
(* Data frames: columns (names), rows (one cell per column), geo (whether  *)
(* the frame is a GeoDataFrame, its geometry in the column "geometry")     *)
(***************************************************************************)
NoFrame == [columns |-> <<>>, rows |-> <<>>, geo |-> FALSE]

\* the index of column c (0 when absent)
ColIndex(columns, c) ==
    IF \E j \in 1..Len(columns) : columns[j] = c
    THEN CHOOSE j \in 1..Len(columns) : columns[j] = c
    ELSE 0

\* the first of a set of column indices (0 when there is none)
FirstIndex(S) ==
    IF S = {} THEN 0 ELSE CHOOSE j \in S : \A k \in S : j <= k

\* gpd.GeoDataFrame(df.copy(), geometry=geom, crs="EPSG:4326"): geom becomes
\* the column "geometry", replacing one of that name
SetGeometry(f, geom) ==
    LET g == ColIndex(f.columns, GEOMETRY) IN
    IF g = 0
    THEN [columns |-> Append(f.columns, GEOMETRY),
          rows |-> [i \in 1..Len(f.rows) |-> Append(f.rows[i], geom[i])],
          geo |-> TRUE]
    ELSE [columns |-> f.columns,
          rows |-> [i \in 1..Len(f.rows) |-> [f.rows[i] EXCEPT ![g] = geom[i]]],
          geo |-> TRUE]

(***************************************************************************)
(* convert_to_geodf (lines 42-72)                                          *)
(***************************************************************************)
\* the lambda of line 55
CellGeom(x) ==
    IF x # NULL /\ StripWs(StrOf(x)) # "" THEN WktLoads(StrOf(x)) ELSE NULL

\* lines 54-56: the parse of one column; a cell that raises ends the apply
ParseColumn(f, j) ==
    LET geom == [i \in 1..Len(f.rows) |-> CellGeom(f.rows[i][j])] IN
    [raised |-> \E i \in 1..Len(geom) : geom[i] = RAISE, geom |-> geom]

\* lines 52-60: whether the loop returns at candidate column j
WktAccepted(f, j) ==
    /\ IsWktName(f.columns[j])
    /\ ~ParseColumn(f, j).raised
    /\ \E i \in 1..Len(f.rows) : ParseColumn(f, j).geom[i] # NULL

\* lines 65-70: points_from_xy over two columns; a cell that is no number
\* raises
PointsFromXY(f, jx, jy) ==
    LET xs == [i \in 1..Len(f.rows) |-> ToFloat(f.rows[i][jx])]
        ys == [i \in 1..Len(f.rows) |-> ToFloat(f.rows[i][jy])] IN
    [raised |-> \E i \in 1..Len(f.rows) : xs[i] = RAISE \/ ys[i] = RAISE,
     geom |-> [i \in 1..Len(f.rows) |-> PointXY(xs[i], ys[i])]]

\* the longitude/latitude columns tried before the WKT columns
GeomSource_LonLatFirst(f) ==
    LET n == Len(f.columns)
        lon == FirstIndex({j \in 1..n : IsLonName(f.columns[j])})
        lat == FirstIndex({j \in 1..n : IsLatName(f.columns[j])})
        w == FirstIndex({j \in 1..n : WktAccepted(f, j)}) IN
    IF lon # 0 /\ lat # 0 /\ ~PointsFromXY(f, lon, lat).raised
    THEN [via |-> "lonlat", geom |-> PointsFromXY(f, lon, lat).geom]
    ELSE IF w # 0 THEN [via |-> "wkt", geom |-> ParseColumn(f, w).geom]
    ELSE [via |-> "none", geom |-> <<>>]

RECURSIVE TryWkt(_, _)
\* lines 52-60: the loop over the candidate columns, from column j on; the
\* column it returns at (0 when it falls through)
TryWkt(f, j) ==
    IF j > Len(f.columns) THEN 0
    ELSE IF WktAccepted(f, j) THEN j
    ELSE TryWkt(f, j + 1)

\* lines 44-72: the strategy that wins and the geometry it yields
GeomSource(f) ==
    LET n == Len(f.columns)
        w == TryWkt(f, 1)
        lon == FirstIndex({j \in 1..n : IsLonName(f.columns[j])})
        lat == FirstIndex({j \in 1..n : IsLatName(f.columns[j])}) IN
    IF w # 0 THEN [via |-> "wkt", geom |-> ParseColumn(f, w).geom]
    ELSE IF lon # 0 /\ lat # 0 /\ ~PointsFromXY(f, lon, lat).raised
    THEN [via |-> "lonlat", geom |-> PointsFromXY(f, lon, lat).geom]
    ELSE [via |-> "none", geom |-> <<>>]

convert_to_geodf(f) ==
    LET g == GeomSource(f) IN
    IF g.via = "none" THEN f ELSE SetGeometry(f, g.geom)

(***************************************************************************)
(* The merged frame and its groups (lines 127-133, 160, 188)               *)
(***************************************************************************)
COUNTRY == <<"c","o","u","n","t","r","y">>
REGION == <<"r","e","g","i","o","n">>

\* the characters of a key text
Chars(x) ==
    CASE x = "a" -> <<"a">>
      [] x = "a/" -> <<"a", "/">>
      [] x = "b" -> <<"b">>
      [] x = "c" -> <<"c">>

\* the code point of a character
Code(ch) ==
    CASE ch = "/" -> 47
      [] ch = "a" -> 97
      [] ch = "b" -> 98
      [] ch = "c" -> 99

RECURSIVE StrLess(_, _)
\* s < t, as Python orders two texts
StrLess(s, t) ==
    IF t = <<>> THEN FALSE
    ELSE IF s = <<>> THEN TRUE
    ELSE IF Code(Head(s)) # Code(Head(t)) THEN Code(Head(s)) < Code(Head(t))
    ELSE StrLess(Tail(s), Tail(t))

KeyLess(u, v) == StrLess(Chars(u), Chars(v))

RECURSIVE UnionColumns(_, _)
\* the columns of the frames from frame i on, in first-seen order, after acc
UnionColumns(frames, acc) ==
    IF frames = <<>> THEN acc
    ELSE LET cs == Head(frames).columns
             new == SelectSeq(cs, LAMBDA c : ColIndex(acc, c) = 0) IN
         UnionColumns(Tail(frames), acc \o new)

RECURSIVE ConcatRows(_, _)
ConcatRows(frames, columns) ==
    IF frames = <<>> THEN <<>>
    ELSE LET f == Head(frames)
             fit(r) == [j \in 1..Len(columns) |->
                          IF ColIndex(f.columns, columns[j]) = 0 THEN NULL
                          ELSE r[ColIndex(f.columns, columns[j])]] IN
         [i \in 1..Len(f.rows) |-> fit(f.rows[i])] \o ConcatRows(Tail(frames), columns)

\* pd.concat(all_dfs, ignore_index=True): the union of the columns, the rows
\* in order, a missing cell where a frame lacks a column
Concat(frames) ==
    LET columns == UnionColumns(frames, <<>>) IN
    [columns |-> columns, rows |-> ConcatRows(frames, columns), geo |-> FALSE]

\* line 129 with any() in the place of all()
Classify_Any(frames) == \E i \in 1..Len(frames) : frames[i].geo

\* line 129: is_spatial
Classify(frames) == \A i \in 1..Len(frames) : frames[i].geo

RECURSIVE SortKeys(_)
\* the values of S in ascending order
SortKeys(S) ==
    IF S = {} THEN <<>>
    ELSE LET m == CHOOSE x \in S : \A y \in S \ {x} : KeyLess(x, y) IN
         <<m>> \o SortKeys(S \ {m})

RECURSIVE FirstSeen(_, _)
\* the distinct non-null values of a sequence of cells, in first-seen order
FirstSeen(cells, seen) ==
    IF cells = <<>> THEN <<>>
    ELSE IF Head(cells) = NULL \/ Head(cells) \in seen THEN FirstSeen(Tail(cells), seen)
    ELSE <<Head(cells)>> \o FirstSeen(Tail(cells), seen \cup {Head(cells)})

\* a groupby that keeps the order in which the keys occur
GroupKeys_FirstSeen(f, idxs, j) ==
    FirstSeen([k \in 1..Len(idxs) |-> f.rows[idxs[k]][j]], {})

\* the keys DataFrame.groupby iterates over (sort=True, dropna=True): the
\* distinct non-null values of column j among the rows idxs, ascending
GroupKeys(f, idxs, j) ==
    SortKeys({f.rows[idxs[k]][j] : k \in 1..Len(idxs)} \ {NULL})

\* for val, df_lvl in frame.groupby(column): each key with its rows, the rows
\* in frame order
GroupBy(f, idxs, j) ==
    LET keys == GroupKeys(f, idxs, j) IN
    [g \in 1..Len(keys) |->
        [key |-> keys[g],
         rows |-> SelectSeq(idxs, LAMBDA i : f.rows[i][j] = keys[g])]]

RECURSIVE Flatten(_)
Flatten(ss) == IF ss = <<>> THEN <<>> ELSE Head(ss) \o Flatten(Tail(ss))

\* lines 160-164 and 188-190: the leaf groups in the order the export loop
\* visits them, each with its key values and its rows
Leaves(f, c1, second, c2) ==
    LET all == [i \in 1..Len(f.rows) |-> i]
        top == GroupBy(f, all, ColIndex(f.columns, c1)) IN
    IF ~second
    THEN [g \in 1..Len(top) |-> [key |-> <<top[g].key>>, rows |-> top[g].rows]]
    ELSE Flatten([g \in 1..Len(top) |->
            LET sub == GroupBy(f, top[g].rows, ColIndex(f.columns, c2)) IN
            [h \in 1..Len(sub) |->
                [key |-> <<top[g].key, sub[h].key>>, rows |-> sub[h].rows]]])

(***************************************************************************)
(* The archive entries of one leaf group (lines 161-213)                   *)
(***************************************************************************)
Formats == {"CSV", "Excel", "GeoJSON", "KML"}
Tabular == {"CSV", "Excel"}
Spatial == {"GeoJSON", "KML"}

Extension(fmt) ==
    CASE fmt = "CSV" -> <<".", "c", "s", "v">>
      [] fmt = "Excel" -> <<".", "x", "l", "s", "x">>
      [] fmt = "GeoJSON" -> <<".", "g", "e", "o", "j", "s", "o", "n">>
      [] fmt = "KML" -> <<".", "k", "m", "l">>

\* lines 161, 164, 189-190: folder_1, or folder_1/file_name
Base(key) ==
    IF Len(key) = 1 THEN safe_name(Chars(StrOf(key[1])))
    ELSE safe_name(Chars(StrOf(key[1]))) \o <<"/">> \o safe_name(Chars(StrOf(key[2])))

Entry(leaf, fmt, rows) ==
    [name |-> Base(leaf.key) \o Extension(fmt), fmt |-> fmt, key |-> leaf.key, rows |-> rows]

\* the spatial entries written whatever is_spatial says
SpatialWrites_Unguarded(f, spatial, leaf, fmts) ==
    (IF "GeoJSON" \in fmts THEN <<Entry(leaf, "GeoJSON", leaf.rows)>> ELSE <<>>)
    \o (IF "KML" \in fmts THEN <<Entry(leaf, "KML", leaf.rows)>> ELSE <<>>)

\* lines 174-186 and 200-213: the rows with a geometry, written as GeoJSON
\* and KML when there are any and the data is spatial
SpatialWrites(f, spatial, leaf, fmts) ==
    LET g == ColIndex(f.columns, GEOMETRY)
        rows == IF spatial THEN SelectSeq(leaf.rows, LAMBDA i : f.rows[i][g] # NULL)
                ELSE <<>> IN
    IF ~spatial \/ rows = <<>> THEN <<>>
    ELSE (IF "GeoJSON" \in fmts THEN <<Entry(leaf, "GeoJSON", rows)>> ELSE <<>>)
         \o (IF "KML" \in fmts THEN <<Entry(leaf, "KML", rows)>> ELSE <<>>)

\* lines 165-186 and 191-213: the writestr calls of one leaf group, in order
Writes(f, spatial, leaf, fmts) ==
    (IF "CSV" \in fmts THEN <<Entry(leaf, "CSV", leaf.rows)>> ELSE <<>>)
    \o (IF "Excel" \in fmts THEN <<Entry(leaf, "Excel", leaf.rows)>> ELSE <<>>)
    \o SpatialWrites(f, spatial, leaf, fmts)

(***************************************************************************)
(* The uploaded files                                                      *)
(***************************************************************************)
Exts == {"csv", "geojson", "txt"}

\* lines 99-107 and 115-123: the reader an extension selects
Reader(ext) ==
    CASE ext \in {"csv"} -> "read_csv"
      [] ext \in {"xls", "xlsx"} -> "read_excel"
      [] ext \in {"geojson", "json", "kml"} -> "read_file"
      [] OTHER -> "unsupported"

CountryCells == {NULL, "a", "a/"}
RegionCells == {"b"}

\* the frames a readable file of that extension reads as, n rows each
FileFrames(ext, n) ==
    LET shapes == IF Reader(ext) = "read_file" THEN {NULL, Pt12}
                  ELSE {NULL, "POINT (1 2)"}
        rows == {<<c, r, g>> : c \in CountryCells, r \in RegionCells, g \in shapes} IN
    {[columns |-> <<COUNTRY, REGION, GEOMETRY>>, rows |-> rs,
      geo |-> (Reader(ext) = "read_file")] : rs \in [1..n -> rows]}

RECURSIVE TotalRows(_)
TotalRows(frames) ==
    IF frames = <<>> THEN 0 ELSE Len(Head(frames).rows) + TotalRows(Tail(frames))

\* the columns the split controls offer (the key columns)
SplitColumns(f) == {c \in {COUNTRY, REGION} : ColIndex(f.columns, c) # 0}

NoColumn == <<>>

(***************************************************************************)
(* Idle values of the variables a specification does not use               *)
(***************************************************************************)
NameIdle ==
    /\ value = <<>>
    /\ name = <<>>
    /\ again = <<>>
    /\ ncalls = 0

GeoIdle ==
    /\ df = NoFrame
    /\ gdf = NoFrame
    /\ via = ""

RunStart ==
    /\ all_dfs = <<>>
    /\ combined_df = NoFrame
    /\ is_spatial = FALSE
    /\ split_col_1 = NoColumn
    /\ enable_second_split = FALSE
    /\ split_col_2 = NoColumn
    /\ output_formats = {}
    /\ advisories = 0
    /\ visited = <<>>
    /\ zip_file = <<>>
    /\ error = ""
    /\ download = FALSE

PipeIdle ==
    /\ pc = "idle"
    /\ is_zip = FALSE
    /\ extracted_files = 0
    /\ RunStart

(***************************************************************************)
(* Spec: one run of the script on an uploaded file (lines 83-224)          *)
(***************************************************************************)
\* the except clause with the download button placed after it
OnException_StillOffers(msg) ==
    /\ pc' = "error"
    /\ error' = msg
    /\ download' = TRUE

\* lines 223-224: the except clause of the run; the download button of
\* lines 216-221 is not reached
OnException(msg) ==
    /\ pc' = "error"
    /\ error' = msg
    /\ download' = FALSE

\* lines 83-93: a file is uploaded; a ZIP is extracted and its files listed
Init ==
    /\ pc = "load"
    /\ \/ is_zip = TRUE /\ extracted_files \in 0..MaxFiles
       \/ is_zip = FALSE /\ extracted_files = 0
    /\ RunStart
    /\ NameIdle
    /\ GeoIdle

\* lines 96-110: one turn of the loop over the extracted files: the file
\* is skipped with a warning, read and converted, or its read raises
ZipFile ==
    /\ pc = "load"
    /\ is_zip
    /\ extracted_files > 0
    /\ \E ext \in Exts :
        \/ /\ Reader(ext) = "unsupported"
           /\ extracted_files' = extracted_files - 1
           /\ UNCHANGED <<pc, all_dfs, error, download>>
        \/ /\ Reader(ext) # "unsupported"
           /\ \E n \in 0..(MaxRows - TotalRows(all_dfs)) :
                \E f \in FileFrames(ext, n) :
                    all_dfs' = Append(all_dfs, convert_to_geodf(f))
           /\ extracted_files' = extracted_files - 1
           /\ UNCHANGED <<pc, error, download>>
        \/ /\ Reader(ext) # "unsupported"
           /\ OnException("read")
           /\ UNCHANGED <<extracted_files, all_dfs>>
    /\ UNCHANGED <<is_zip, datavars, ctlvars, outvars, nvars, gvars>>

\* the loop over the extracted files ends
ZipDone ==
    /\ pc = "load"
    /\ is_zip
    /\ extracted_files = 0
    /\ pc' = "combine"
    /\ UNCHANGED <<loadvars, datavars, ctlvars, outvars, error, download, nvars, gvars>>

\* lines 113-125: a single uploaded file
SingleFile ==
    /\ pc = "load"
    /\ ~is_zip
    /\ \E ext \in Exts :
        \/ /\ Reader(ext) = "unsupported"
           /\ pc' = "error"
           /\ error' = "Unsupported file format"
           /\ UNCHANGED <<all_dfs, download>>
        \/ /\ Reader(ext) # "unsupported"
           /\ \E n \in 0..MaxRows :
                \E f \in FileFrames(ext, n) :
                    all_dfs' = <<convert_to_geodf(f)>>
           /\ pc' = "combine"
           /\ UNCHANGED <<error, download>>
        \/ /\ Reader(ext) # "unsupported"
           /\ OnException("read")
           /\ UNCHANGED all_dfs
    /\ UNCHANGED <<is_zip, extracted_files, datavars, ctlvars, outvars, nvars, gvars>>

\* lines 129-133: classify and merge; pd.concat raises on an empty list.
\* all_dfs is not read after the merge, and the model releases it there
Combine ==
    /\ pc = "combine"
    /\ \/ /\ all_dfs = <<>>
          /\ OnException("concat")
          /\ UNCHANGED <<all_dfs, datavars>>
       \/ /\ all_dfs # <<>>
          /\ is_spatial' = Classify(all_dfs)
          /\ combined_df' = [Concat(all_dfs) EXCEPT !.geo = Classify(all_dfs)]
          /\ all_dfs' = <<>>
          /\ pc' = "controls"
          /\ UNCHANGED <<error, download>>
    /\ UNCHANGED <<is_zip, extracted_files, ctlvars, outvars, nvars, gvars>>

\* lines 139-154: the split controls and the advisory for spatial formats
SelectControls ==
    /\ pc = "controls"
    /\ \E c1 \in SplitColumns(combined_df), second \in BOOLEAN, fmts \in SUBSET Formats :
        /\ split_col_1' = c1
        /\ enable_second_split' = second
        /\ \/ /\ ~second
              /\ split_col_2' = NoColumn
           \/ /\ second
              /\ \E c2 \in SplitColumns(combined_df) \ {c1} : split_col_2' = c2
        /\ output_formats' = fmts
        /\ advisories' = IF fmts \cap Spatial # {} /\ ~is_spatial
                         THEN advisories + 1 ELSE advisories
    /\ pc' = "export"
    /\ UNCHANGED <<loadvars, datavars, outvars, error, download, nvars, gvars>>

\* the leaf groups of this run
RunLeaves == Leaves(combined_df, split_col_1, enable_second_split, split_col_2)

\* lines 160-213: one leaf group of the export loop; a write may raise
ExportLeaf ==
    /\ pc = "export"
    /\ Len(visited) < Len(RunLeaves)
    /\ LET leaf == RunLeaves[Len(visited) + 1]
           w == Writes(combined_df, is_spatial, leaf, output_formats) IN
       /\ visited' = Append(visited, leaf)
       /\ \/ /\ zip_file' = zip_file \o w
             /\ UNCHANGED <<pc, error, download>>
          \/ /\ \E k \in 0..(Len(w) - 1) : zip_file' = zip_file \o SubSeq(w, 1, k)
             /\ OnException("export")
    /\ UNCHANGED <<loadvars, datavars, ctlvars, nvars, gvars>>

\* lines 215-221: the archive is closed and the download offered
Download ==
    /\ pc = "export"
    /\ Len(visited) = Len(RunLeaves)
    /\ pc' = "done"
    /\ download' = TRUE
    /\ UNCHANGED <<loadvars, datavars, ctlvars, outvars, error, nvars, gvars>>

Next ==
    \/ ZipFile
    \/ ZipDone
    \/ SingleFile
    \/ Combine
    \/ SelectControls
    \/ ExportLeaf
    \/ Download

Spec == Init /\ [][Next]_vars

(***************************************************************************)
(* Claims about the run                                                    *)
(***************************************************************************)
Range(q) == {q[i] : i \in 1..Len(q)}

\* the run has chosen its controls and reached the export loop
Exporting == pc \in {"export", "done"} \/ (pc = "error" /\ error = "export")

\* the key values of row i under the chosen split columns
RowKey(i) ==
    LET r == combined_df.rows[i]
        k1 == r[ColIndex(combined_df.columns, split_col_1)] IN
    IF enable_second_split
    THEN <<k1, r[ColIndex(combined_df.columns, split_col_2)]>>
    ELSE <<k1>>

\* C1 (as claimed): the groups the export loop visits partition the rows of
\* the merged frame: every row, also one with a null key, is in exactly one
\* leaf group
C1_PartitionCompleteness ==
    pc = "done" =>
        \A i \in 1..Len(combined_df.rows) :
            Cardinality({g \in 1..Len(visited) : i \in Range(visited[g].rows)}) = 1

\* C2 (as claimed): the merged frame is classified spatial exactly when at
\* least one of the loaded frames is spatial
C2_SpatialIffAny ==
    [][(pc = "combine" /\ pc' = "controls") =>
          (is_spatial' = (\E i \in 1..Len(all_dfs) : all_dfs[i].geo))]_vars

\* C2 (amended): the merged frame is classified spatial exactly when every
\* loaded frame is spatial, and only then is a spatial entry written
C2_SpatialIffAll ==
    /\ [][(pc = "combine" /\ pc' = "controls") =>
             /\ is_spatial' = (\A i \in 1..Len(all_dfs) : all_dfs[i].geo)
             /\ combined_df'.geo = is_spatial'
             /\ Len(combined_df'.rows) = TotalRows(all_dfs)]_vars
    /\ [](\A e \in Range(zip_file) : e.fmt \in Spatial => is_spatial)

\* a merge of a spatial and a non-spatial frame: a row has a geometry and
\* the merged frame is classified non-spatial
C2_Witness ==
    /\ pc = "controls"
    /\ ~is_spatial
    /\ \E i \in 1..Len(combined_df.rows) :
          combined_df.rows[i][ColIndex(combined_df.columns, GEOMETRY)] # NULL
    /\ \E i \in 1..Len(combined_df.rows) :
          combined_df.rows[i][ColIndex(combined_df.columns, GEOMETRY)] = NULL

\* C4 (as claimed): a file of a ZIP whose read fails is skipped and the run
\* goes on: the run of a ZIP never ends in the error of a failed read
C4_PerFileContainment ==
    (is_zip /\ pc = "error") => error # "read"

\* the key tuples with no null value that occur in the merged frame
ObservedKeys ==
    {RowKey(i) : i \in 1..Len(combined_df.rows)}
        \ {k \in {RowKey(i) : i \in 1..Len(combined_df.rows)} :
              \E j \in 1..Len(k) : k[j] = NULL}

\* C6 (as claimed): the archive holds one entry per observed key tuple and
\* requested tabular format, named after the sanitised key values, and no
\* two entries share a name
C6_ContainerLayout ==
    pc = "done" =>
        /\ \A k \in ObservedKeys, fmt \in output_formats \cap Tabular :
              \E n \in 1..Len(zip_file) :
                  /\ zip_file[n].key = k
                  /\ zip_file[n].fmt = fmt
                  /\ zip_file[n].name = Base(k) \o Extension(fmt)
        /\ \A n \in 1..Len(zip_file) : zip_file[n].key \in ObservedKeys
        /\ \A m, n \in 1..Len(zip_file) :
              m # n => zip_file[m].name # zip_file[n].name

\* the first row of the merged frame whose first key is that of leaf g
FirstOfTop(g) ==
    LET c == ColIndex(combined_df.columns, split_col_1) IN
    CHOOSE i \in 1..Len(combined_df.rows) :
        /\ combined_df.rows[i][c] = visited[g].key[1]
        /\ \A k \in 1..(i - 1) : combined_df.rows[k][c] # visited[g].key[1]

\* C7 (as claimed): the groups are visited in the order in which their keys
\* first occur in the rows: top-level groups by the first row of each key,
\* and the sub-groups of one top-level group by their first rows
C7_FirstSeenOrder ==
    Exporting =>
        \A g, h \in 1..Len(visited) :
            g < h =>
                IF visited[g].key[1] = visited[h].key[1]
                THEN visited[g].rows[1] < visited[h].rows[1]
                ELSE FirstOfTop(g) < FirstOfTop(h)

\* k comes before l: by the first key, then by the second
KeyTupleLess(k, l) ==
    \/ KeyLess(k[1], l[1])
    \/ k[1] = l[1] /\ Len(k) = 2 /\ KeyLess(k[2], l[2])

\* C7 (amended): the groups are visited, and their entries written, in
\* ascending order of the key values: top-level groups by the first key,
\* the sub-groups of one top-level group by the second
C7_SortedOrder ==
    Exporting =>
        /\ \A g, h \in 1..Len(visited) :
              g < h => KeyTupleLess(visited[g].key, visited[h].key)
        /\ \A m, n \in 1..Len(zip_file) :
              m < n => ( \/ zip_file[m].key = zip_file[n].key
                         \/ KeyTupleLess(zip_file[m].key, zip_file[n].key) )

\* two-level export in which a key that occurs later in the rows is visited
\* first
C7_Witness ==
    /\ pc = "done"
    /\ enable_second_split
    /\ split_col_1 = REGION
    /\ Len(visited) = 2
    /\ visited[1].rows[1] > visited[2].rows[1]
    /\ Len(zip_file) >= 2

\* C8: with spatial formats requested of a non-spatial frame the advisory
\* is shown once, no spatial entry is written, the run fails only when a
\* tabular write raises, and a finished run offers the download with every
\* requested tabular entry of every group
C8_SpatialOnNonSpatial ==
    (Exporting /\ ~is_spatial /\ output_formats \cap Spatial # {}) =>
        /\ advisories = 1
        /\ \A e \in Range(zip_file) : e.fmt \notin Spatial
        /\ pc = "error" => output_formats \cap Tabular # {}
        /\ pc = "done" =>
              /\ download
              /\ error = ""
              /\ Len(visited) = Len(RunLeaves)
              /\ \A g \in 1..Len(visited), fmt \in output_formats \cap Tabular :
                    Cardinality({n \in 1..Len(zip_file) :
                        /\ zip_file[n].key = visited[g].key
                        /\ zip_file[n].fmt = fmt
                        /\ zip_file[n].rows = visited[g].rows}) = 1

C8_Witness ==
    /\ pc = "done"
    /\ ~is_spatial
    /\ output_formats = {"CSV", "GeoJSON", "KML"}
    /\ advisories = 1
    /\ Len(visited) = 2
    /\ Len(zip_file) = 2
    /\ download

RECURSIVE AllWrites(_)
\* the entries of the leaf groups from group g on
AllWrites(g) ==
    IF g > Len(RunLeaves) THEN <<>>
    ELSE Writes(combined_df, is_spatial, RunLeaves[g], output_formats) \o AllWrites(g + 1)

\* C10: the download is offered only after every group was exported in every
\* requested format with no error; a run that fails shows an error and
\* offers no download, whatever was written to the archive before
C10_NoPartialArchive ==
    /\ download =>
          /\ pc = "done"
          /\ error = ""
          /\ visited = RunLeaves
          /\ zip_file = AllWrites(1)
    /\ pc = "error" => (error # "" /\ ~download)
    /\ pc = "done" => download

\* a write of the second group raises after the entries of the first group
\* were written
C10_Witness ==
    /\ pc = "error"
    /\ error = "export"
    /\ Len(visited) = 2
    /\ Len(zip_file) >= 1
    /\ ~download

(***************************************************************************)
(* SpecName: safe_name applied to a text, then to its own result           *)
(***************************************************************************)
Alphabet == Reserved \cup {"_", "a"}

Texts == UNION {[1..n -> Alphabet] : n \in 0..MaxLen}

NameInit ==
    /\ value \in Texts
    /\ name = <<>>
    /\ again = <<>>
    /\ ncalls = 0
    /\ GeoIdle
    /\ PipeIdle

Sanitize ==
    /\ ncalls = 0
    /\ name' = safe_name(value)
    /\ ncalls' = 1
    /\ UNCHANGED <<value, again, gvars, pvars>>

Resanitize ==
    /\ ncalls = 1
    /\ again' = safe_name(name)
    /\ ncalls' = 2
    /\ UNCHANGED <<value, name, gvars, pvars>>

NameNext == Sanitize \/ Resanitize

SpecName == NameInit /\ [][NameNext]_vars

\* C5: safe_name is idempotent, its result holds no reserved character, and
\* a text of reserved characters and underscores only (the empty text
\* included) is named UNKNOWN
C5_SanitizationNormalForm ==
    /\ ncalls >= 1 =>
          /\ \A i \in 1..Len(name) : name[i] \notin Reserved
          /\ (\A i \in 1..Len(value) : value[i] \in Reserved \cup {"_"})
                => name = UNKNOWN
    /\ ncalls = 2 => again = name

C5_Witness ==
    /\ ncalls = 2
    /\ Len(value) = 3
    /\ value[1] = "_"
    /\ value[2] = "a"
    /\ value[3] \in Reserved
    /\ name = <<"a">>
(***************************************************************************)
(* SpecGeo: convert_to_geodf applied to a frame                            *)
(***************************************************************************)
N_WKT == <<"W","K","T">>
N_plot_wkt == <<"p","l","o","t","_","w","k","t">>
N_Lon == <<"L","o","n">>
N_lon2 == <<"l","o","n","2">>
N_LAT == <<"L","A","T">>
N_id == <<"i","d">>

\* the column layouts of the frames handed in
GeoLayouts ==
    { <<N_WKT>>,
      <<N_WKT, GEOMETRY>>,
      <<N_WKT, N_Lon, N_LAT>>,
      <<N_LAT, N_plot_wkt, N_Lon>>,
      <<N_lon2, N_Lon, N_LAT>>,
      <<N_id, N_LAT>>,
      <<N_id, GEOMETRY, N_Lon>> }

\* the cells a column of that name may hold
GeoCells(c) ==
    IF IsWktName(c) THEN {NULL, " ", "POINT (1 2)", "not-a-point"}
    ELSE IF IsLonName(c) THEN {"1", "2", "x"}
    ELSE IF IsLatName(c) THEN {"1", "2", NULL}
    ELSE {"a"}

RECURSIVE GeoRows(_)
\* the rows over those columns
GeoRows(columns) ==
    IF columns = <<>> THEN {<<>>}
    ELSE {<<c>> \o r : c \in GeoCells(Head(columns)), r \in GeoRows(Tail(columns))}

RECURSIVE RowSeqs(_, _)
\* the sequences of n of those rows
RowSeqs(rows, n) ==
    IF n = 0 THEN {<<>>}
    ELSE {Append(q, r) : q \in RowSeqs(rows, n - 1), r \in rows}

\* the plain frames of n rows over those columns
GeoFrames(columns, n) ==
    {[columns |-> columns, rows |-> rs, geo |-> FALSE] : rs \in RowSeqs(GeoRows(columns), n)}

GeoInit ==
    /\ \E columns \in GeoLayouts : \E n \in 0..MaxGeoRows : df \in GeoFrames(columns, n)
    /\ gdf = NoFrame
    /\ via = ""
    /\ NameIdle
    /\ PipeIdle

Convert ==
    /\ via = ""
    /\ gdf' = convert_to_geodf(df)
    /\ via' = GeomSource(df).via
    /\ UNCHANGED <<df, nvars, pvars>>

GeoNext == Convert

SpecGeo == GeoInit /\ [][GeoNext]_vars
\* the geometry of row i of a GeoDataFrame
GeometryCell(f, i) == f.rows[i][ColIndex(f.columns, GEOMETRY)]

\* whether cell x holds a well-known text that parses
Parses(x) == CellGeom(x) \notin {NULL, RAISE}

\* C3 (as claimed): a candidate column with at least one cell that parses is
\* the geometry source, and each of its cells that fails to parse, is
\* missing or is blank gives its row a null geometry
C3_PerCellContainment ==
    via # "" =>
        LET n == Len(df.columns)
            j == FirstIndex({k \in 1..n :
                    /\ IsWktName(df.columns[k])
                    /\ \E i \in 1..Len(df.rows) : Parses(df.rows[i][k])}) IN
        j # 0 =>
            /\ via = "wkt"
            /\ gdf.geo
            /\ \A i \in 1..Len(df.rows) :
                  GeometryCell(gdf, i) =
                      IF Parses(df.rows[i][j]) THEN CellGeom(df.rows[i][j]) ELSE NULL

\* C9: the first candidate column (in column order) that the loop accepts
\* gives the geometry, and then longitude/latitude is not used; with no
\* cell of any candidate column parsing and numeric first "lon" and "lat"
\* columns the geometry is the point of those two columns, row by row; with
\* neither, the frame is returned as it came
C9_FallbackOrdering ==
    via # "" =>
        LET n == Len(df.columns)
            w == FirstIndex({k \in 1..n : WktAccepted(df, k)})
            lon == FirstIndex({k \in 1..n : IsLonName(df.columns[k])})
            lat == FirstIndex({k \in 1..n : IsLatName(df.columns[k])})
            noParse == \A k \in 1..n : IsWktName(df.columns[k]) =>
                          \A i \in 1..Len(df.rows) : ~Parses(df.rows[i][k]) IN
        /\ w # 0 =>
              /\ via = "wkt"
              /\ gdf.geo
              /\ \A i \in 1..Len(df.rows) :
                    GeometryCell(gdf, i) = CellGeom(df.rows[i][w])
        /\ via = "lonlat" => w = 0
        /\ ( /\ noParse
             /\ lon # 0
             /\ lat # 0
             /\ \A i \in 1..Len(df.rows) :
                   /\ ToFloat(df.rows[i][lon]) # RAISE
                   /\ ToFloat(df.rows[i][lat]) # RAISE ) =>
              /\ via = "lonlat"
              /\ gdf.geo
              /\ Len(gdf.rows) = Len(df.rows)
              /\ \A i \in 1..Len(df.rows) :
                    GeometryCell(gdf, i) =
                        PointXY(ToFloat(df.rows[i][lon]), ToFloat(df.rows[i][lat]))
        /\ (w = 0 /\ (lon = 0 \/ lat = 0)) => (via = "none" /\ gdf = df)

\* a malformed WKT column beside numeric longitude and latitude columns
C9_Witness ==
    /\ via = "lonlat"
    /\ df.columns = <<N_WKT, N_Lon, N_LAT>>
    /\ Len(df.rows) = 2
    /\ df.rows[1] = <<"not-a-point", "1", "2">>
    /\ df.rows[2] = <<"not-a-point", "2", "1">>
    /\ GeometryCell(gdf, 1) = Pt12
    /\ GeometryCell(gdf, 2) = Pt21
====
